---- MODULE Spec2Model ----
(***************************************************************************)
(* SchemaDeployer._split_sql_statements of deploy_schemas.py as a state    *)
(* machine.  A text is a sequence of one-character strings.  One run of    *)
(* the machine is one call: the three rewriting steps of the comment       *)
(* removal and whitespace normalisation, one step per iteration of the     *)
(* character scan, and the final step that adds the remaining buffer and   *)
(* formats the returned list.                                              *)
(***************************************************************************)
EXTENDS Integers, Sequences, FiniteSets, TLC

(***************************************************************************)
(* Bounds of the explored inputs: an input is a concatenation of at most   *)
(* MaxPieces pieces (MaxTblPieces, MaxPlainPieces, MaxCommentPieces for the *)
(* other input families).                                                  *)
(***************************************************************************)
MaxPieces == 5

MaxTblPieces == 6

MaxPlainPieces == 6

MaxCommentPieces == 5

MaxBodyPieces == 3

MaxStatementPieces == 2

MaxFilePieces == 4

MaxEntries == 3

(***************************************************************************)
(* Characters and strings                                                  *)
(***************************************************************************)
\* the keyword compared at deploy_schemas.py:226
TBLPROPERTIES == <<"T", "B", "L", "P", "R", "O", "P", "E", "R", "T", "I", "E", "S">>

\* the width of the lookahead slice sql_content[i:i+13]
KeywordLen == 13

\* the keyword in lower case, an input piece (the comparison is on .upper())
tblproperties == <<"t", "b", "l", "p", "r", "o", "p", "e", "r", "t", "i", "e", "s">>

\* the other two markers of remove_comments
CREATE_ == <<"C", "R", "E", "A", "T", "E", " ">>

SCHEMA_ == <<"S", "C", "H", "E", "M", "A", " ">>

\* the characters str.strip() removes, among those of the inputs
Whitespace == {" ", "\n", "\t"}

\* the line boundaries of str.splitlines() and of $ under re.MULTILINE
LineBreak == "\n"

\* the backquote character, written as a token (the lexer of the tools
\* rejects it inside a string)
Backquote == "BQ"

\* the characters that open a string literal (line 230)
QuoteChars == {"'", "\"", Backquote}

\* string_delimiter = None
None == "None"

UpperOf ==
  [c \in {"a", "b", "c", "e", "h", "i", "l", "m", "o", "p", "r", "s", "t"} |->
     CASE c = "a" -> "A" [] c = "b" -> "B" [] c = "c" -> "C" [] c = "e" -> "E"
       [] c = "h" -> "H" [] c = "i" -> "I" [] c = "l" -> "L" [] c = "m" -> "M"
       [] c = "o" -> "O" [] c = "p" -> "P" [] c = "r" -> "R" [] c = "s" -> "S"
       [] c = "t" -> "T"]

\* str.upper() on one character
UpperChar(c) == IF c \in DOMAIN UpperOf THEN UpperOf[c] ELSE c

\* str.upper()
Upper(s) == [k \in 1..Len(s) |-> UpperChar(s[k])]

\* s[from-1 : to] of Python, 1-based and clipped to the text
Slice(s, from, to) ==
  IF from > to \/ from > Len(s) THEN <<>>
  ELSE SubSeq(s, from, IF to > Len(s) THEN Len(s) ELSE to)

\* s.startswith(pat, k-1)
StartsAt(s, pat, k) == Slice(s, k, k + Len(pat) - 1) = pat

\* pat in s
Contains(s, pat) == \E k \in 1..(Len(s) - Len(pat) + 1) : StartsAt(s, pat, k)

\* s.endswith(';')
EndsWithSemicolon(s) == Len(s) > 0 /\ s[Len(s)] = ";"

RECURSIVE LStrip(_)
LStrip(s) ==
  IF s # <<>> /\ Head(s) \in Whitespace THEN LStrip(Tail(s)) ELSE s

RECURSIVE RStrip(_)
RStrip(s) ==
  IF s # <<>> /\ s[Len(s)] \in Whitespace THEN RStrip(SubSeq(s, 1, Len(s) - 1)) ELSE s

\* str.strip()
Strip(s) == RStrip(LStrip(s))

RECURSIVE Flatten(_)
Flatten(ss) == IF ss = <<>> THEN <<>> ELSE Head(ss) \o Flatten(Tail(ss))

(***************************************************************************)
(* Comment removal and whitespace normalisation, lines 202-215             *)
(***************************************************************************)
\* the first k >= from with pat at k, or 0
RECURSIVE Find(_, _, _)
Find(s, pat, from) ==
  IF from + Len(pat) - 1 > Len(s) THEN 0
  ELSE IF StartsAt(s, pat, from) THEN from
  ELSE Find(s, pat, from + 1)

\* the end of the line that holds position k: the index of its line break,
\* or Len(s) + 1
RECURSIVE LineEnd(_, _)
LineEnd(s, k) ==
  IF k > Len(s) THEN Len(s) + 1
  ELSE IF s[k] = LineBreak THEN k
  ELSE LineEnd(s, k + 1)

\* re.sub(r'--.*?$', '', s, flags=re.MULTILINE): every match runs from the
\* leftmost -- of a line to the end of that line
RECURSIVE RemoveLineComments(_)
RemoveLineComments(s) ==
  LET k == Find(s, <<"-", "-">>, 1) IN
    IF k = 0 THEN s
    ELSE LET e == LineEnd(s, k) IN
           SubSeq(s, 1, k - 1) \o RemoveLineComments(Slice(s, e, Len(s)))

\* line 208 without .upper(): the markers are found in upper case only
IsProtected_CaseSensitive(content) ==
  \/ Contains(content, TBLPROPERTIES)
  \/ Contains(content, CREATE_)
  \/ Contains(content, SCHEMA_)

\* any(x in content.upper() for x in ['TBLPROPERTIES', 'CREATE ', 'SCHEMA '])
IsProtected(content) ==
  \/ Contains(Upper(content), TBLPROPERTIES)
  \/ Contains(Upper(content), CREATE_)
  \/ Contains(Upper(content), SCHEMA_)

\* remove_comments(match)
remove_comments(content) == IF IsProtected(content) THEN content ELSE <<>>

\* re.sub(r'/\*.*?\*/', remove_comments, s, flags=re.DOTALL): the leftmost
\* /* and the first */ that starts after it, then on from the end of the match
RECURSIVE RemoveBlockComments(_)
RemoveBlockComments(s) ==
  LET k == Find(s, <<"/", "*">>, 1) IN
    IF k = 0 THEN s
    ELSE LET e == Find(s, <<"*", "/">>, k + 2) IN
           IF e = 0 THEN s
           ELSE SubSeq(s, 1, k - 1)
                  \o remove_comments(SubSeq(s, k, e + 1))
                  \o RemoveBlockComments(Slice(s, e + 2, Len(s)))

\* s.splitlines(): a final line break opens no further line
RECURSIVE SplitLines(_)
SplitLines(s) ==
  IF s = <<>> THEN <<>>
  ELSE LET e == LineEnd(s, 1) IN
         <<SubSeq(s, 1, e - 1)>> \o SplitLines(Slice(s, e + 1, Len(s)))

\* '\n'.join(lines)
RECURSIVE JoinLines(_)
JoinLines(lines) ==
  IF lines = <<>> THEN <<>>
  ELSE IF Len(lines) = 1 THEN lines[1]
  ELSE lines[1] \o <<LineBreak>> \o JoinLines(Tail(lines))

\* [line.strip() for line in lines if line.strip()]
RECURSIVE StripLines(_)
StripLines(lines) ==
  IF lines = <<>> THEN <<>>
  ELSE IF Strip(Head(lines)) = <<>> THEN StripLines(Tail(lines))
  ELSE <<Strip(Head(lines))>> \o StripLines(Tail(lines))

\* line 215
NormalizeWhitespace(s) == JoinLines(StripLines(SplitLines(s)))

(***************************************************************************)
(* The character scan, lines 217-260                                       *)
(***************************************************************************)
\* line 226: sql_content[i:i+13].upper() == 'TBLPROPERTIES'
KeywordAt(text, k) == Upper(Slice(text, k, k + KeywordLen - 1)) = TBLPROPERTIES

\* line 230 without its test of in_tblproperties
OpensString_IgnoringTbl(char, in_str, in_tbl) ==
  char \in QuoteChars /\ ~in_str

\* line 230
OpensString(char, in_str, in_tbl) ==
  char \in QuoteChars /\ ~in_str /\ ~in_tbl

\* line 234
ClosesString(char, delimiter, in_str, in_tbl) ==
  char = delimiter /\ in_str /\ ~in_tbl

\* line 238 without its test of in_string
SplitsStatement_IgnoringStrings(char, in_str, in_tbl) ==
  char = ";" /\ ~in_tbl

\* line 238 without its test of in_tblproperties
SplitsStatement_IgnoringTbl(char, in_str, in_tbl) ==
  char = ";" /\ ~in_str

\* line 238
SplitsStatement(char, in_str, in_tbl) ==
  char = ";" /\ ~in_str /\ ~in_tbl

\* line 244
ClosesTblproperties(char, in_tbl) ==
  char = ")" /\ in_tbl

\* lines 239-241 with the buffer added as it is, not stripped
AddStatement_Unstripped(stmts, cur) ==
  IF Strip(cur) # <<>> THEN Append(stmts, cur) ELSE stmts

\* lines 239-241 with a statement that is already in the list left out
AddStatement_Deduplicating(stmts, cur) ==
  IF Strip(cur) # <<>> /\ \A k \in 1..Len(stmts) : stmts[k] # Strip(cur)
  THEN Append(stmts, Strip(cur)) ELSE stmts

\* lines 239-241, 248-250 and 256-257: stmt = current.strip(); appended if
\* not empty
AddStatement(stmts, cur) ==
  IF Strip(cur) # <<>> THEN Append(stmts, Strip(cur)) ELSE stmts

\* s + ';' if not s.endswith(';') else s
Terminate(s) == IF EndsWithSemicolon(s) THEN s ELSE s \o <<";">>

\* line 260: [s + ';' if not s.endswith(';') else s for s in statements if s.strip()]
RECURSIVE FormatStatements(_)
FormatStatements(stmts) ==
  IF stmts = <<>> THEN <<>>
  ELSE IF Strip(Head(stmts)) = <<>> THEN FormatStatements(Tail(stmts))
  ELSE <<Terminate(Head(stmts))>> \o FormatStatements(Tail(stmts))

\* lines 218-222
InitScan ==
  [statements |-> <<>>, current |-> <<>>, in_string |-> FALSE,
   in_tblproperties |-> FALSE, string_delimiter |-> None]

\* lines 231-233
OpenString(st, in_tbl, char) ==
  [st EXCEPT !.in_tblproperties = in_tbl, !.in_string = TRUE,
             !.string_delimiter = char, !.current = Append(st.current, char)]

\* lines 235-236
CloseString(st, in_tbl, char) ==
  [st EXCEPT !.in_tblproperties = in_tbl, !.in_string = FALSE,
             !.current = Append(st.current, char)]

\* lines 239-242 with the ; kept in the statement
SplitStatement_KeepsSemicolon(st, in_tbl) ==
  [st EXCEPT !.in_tblproperties = in_tbl,
             !.statements = AddStatement(st.statements, Append(st.current, ";")),
             !.current = <<>>]

\* lines 239-242 without the reset of line 242
SplitStatement_KeepsBuffer(st, in_tbl) ==
  [st EXCEPT !.in_tblproperties = in_tbl,
             !.statements = AddStatement(st.statements, st.current)]

\* lines 239-242
SplitStatement(st, in_tbl) ==
  [st EXCEPT !.in_tblproperties = in_tbl,
             !.statements = AddStatement(st.statements, st.current),
             !.current = <<>>]

\* lines 245-246 alone: the ) closes the region and ends no statement
CloseTblproperties_EndsNoStatement(st, char) ==
  [st EXCEPT !.in_tblproperties = FALSE, !.current = Append(st.current, char)]

\* lines 247-251 alone: the statement ends and the region stays open
CloseTblproperties_KeepsRegion(st, char) ==
  [st EXCEPT !.in_tblproperties = TRUE,
             !.statements = AddStatement(st.statements, Append(st.current, char)),
             !.current = <<>>]

\* lines 245-251
CloseTblproperties(st, char) ==
  [st EXCEPT !.in_tblproperties = FALSE,
             !.statements = AddStatement(st.statements, Append(st.current, char)),
             !.current = <<>>]

\* line 253 with the blanks left out of the buffer
Accumulate_SkipsBlanks(st, in_tbl, char) ==
  [st EXCEPT !.in_tblproperties = in_tbl,
             !.current = IF char \in Whitespace THEN st.current
                         ELSE Append(st.current, char)]

\* line 253
Accumulate(st, in_tbl, char) ==
  [st EXCEPT !.in_tblproperties = in_tbl, !.current = Append(st.current, char)]

\* one iteration of the loop of line 224 on the character text[k]
ScanChar(st, text, k) ==
  LET char == text[k]
      in_tbl == st.in_tblproperties \/ KeywordAt(text, k)
  IN
    IF OpensString(char, st.in_string, in_tbl) THEN
      OpenString(st, in_tbl, char)
    ELSE IF ClosesString(char, st.string_delimiter, st.in_string, in_tbl) THEN
      CloseString(st, in_tbl, char)
    ELSE IF SplitsStatement(char, st.in_string, in_tbl) THEN
      SplitStatement(st, in_tbl)
    ELSE IF ClosesTblproperties(char, in_tbl) THEN
      CloseTblproperties(st, char)
    ELSE
      Accumulate(st, in_tbl, char)

\* the loop of lines 224-253 from position k on
RECURSIVE ScanFrom(_, _, _)
ScanFrom(st, text, k) ==
  IF k > Len(text) THEN st ELSE ScanFrom(ScanChar(st, text, k), text, k + 1)

\* lines 255-257 left out
FinalStatements_DropsRemainder(stmts, cur) == stmts

\* lines 255-257: the remaining content is the last statement
FinalStatements(stmts, cur) == AddStatement(stmts, cur)

\* lines 202-215
StripComments(text) ==
  NormalizeWhitespace(RemoveBlockComments(RemoveLineComments(text)))

\* _split_sql_statements as a function of its argument
SplitSqlStatements(text) ==
  LET st == ScanFrom(InitScan, StripComments(text), 1) IN
    FormatStatements(FinalStatements(st.statements, st.current))

(***************************************************************************)
(* The call as a state machine                                             *)
(***************************************************************************)
VARIABLES
  source,            \* the argument as the caller passed it (line 180)
  pc,                \* "start", "block", "normalize", "scan", "done"; in
                     \* execute_sql_file also "returned", "raised"
  sql_content,       \* the argument, rewritten by lines 203, 212 and 215
  i,                 \* 1-based index of the next character of the scan
  statements, current, in_string, in_tblproperties, string_delimiter,
  result,            \* the returned list
  stmt_index,        \* execute_sql_file: 1-based position of the loop of line 183
  executed,          \* the statements passed to cursor.execute so far, in order
  failed,            \* positions whose cursor.execute raised DatabricksError
  raised,            \* the exception that has left the method, or None
  catalog,           \* _ensure_catalog_exists: the argument
  fetched,           \* line 80: "row" when cursor.fetchone() returned a row, "no
                     \* row" when it returned None; None before the call
  errors,            \* the messages of the exceptions cursor.execute raised
  listing,           \* main: what os.listdir(schema_dir) returned (line 273)
  sql_files,         \* what get_sql_files returned (line 296)
  processed          \* the files passed to execute_sql_file so far, in order

\* the state of the caller of _split_sql_statements
driver == <<stmt_index, executed, failed, raised, catalog, fetched, errors,
            listing, sql_files, processed>>

\* the part of it that belongs to main
files == <<listing, sql_files, processed>>

vars == <<source, pc, sql_content, i, statements, current, in_string, in_tblproperties,
          string_delimiter, result, driver>>

scan == [statements |-> statements, current |-> current, in_string |-> in_string,
         in_tblproperties |-> in_tblproperties,
         string_delimiter |-> string_delimiter]

\* the texts made of at most n pieces of P
Inputs(P, n) == {Flatten(ps) : ps \in UNION {[1..k -> P] : k \in 0..n}}

\* input pieces: a letter, a blank, the terminator, a quote character, a
\* closing parenthesis and the keyword
Pieces == {<<"a">>, <<" ">>, <<";">>, <<"'">>, <<")">>, TBLPROPERTIES}

\* input pieces around a TBLPROPERTIES clause: the keyword comes with its
\* opening parenthesis
TblPieces == {<<";">>, <<"'">>, <<")">>, tblproperties \o <<"(">>}

\* input pieces without quotes and keyword; two - in a row open a comment
PlainPieces == {<<"a">>, <<" ">>, <<"\n">>, <<";">>, <<"-">>}

\* input pieces of comments: the two comment brackets, a marker in lower
\* case, a line break, a letter and one half of --
CommentPieces == {<<"/", "*">>, <<"*", "/">>, <<"c", "r", "e", "a", "t", "e", " ">>,
                  <<"\n">>, <<"a">>, <<"-">>}

\* pieces of the body of a comment with a marker, and of the statement after
\* it; neither holds a ; or a line break
BodyPieces == {TBLPROPERTIES, <<"c", "r", "e", "a", "t", "e", " ">>, <<"(">>, <<")">>, <<"a">>}

StatementPieces == {<<"a">>, <<"(">>, <<")">>, <<"'">>}

\* a comment with a marker, immediately followed by one statement closed by ;
ProtectedCommentInputs ==
  {<<"/", "*">> \o body \o <<"*", "/">> \o stmt \o <<";">> :
     body \in {b \in Inputs(BodyPieces, MaxBodyPieces) : IsProtected(b)},
     stmt \in Inputs(StatementPieces, MaxStatementPieces) \ {<<>>}}

Start(text) ==
  /\ source = text
  /\ pc = "start"
  /\ sql_content = text
  /\ i = 1
  /\ statements = InitScan.statements
  /\ current = InitScan.current
  /\ in_string = InitScan.in_string
  /\ in_tblproperties = InitScan.in_tblproperties
  /\ string_delimiter = InitScan.string_delimiter
  /\ result = <<>>
  /\ stmt_index = 1
  /\ executed = <<>>
  /\ failed = {}
  /\ raised = None
  /\ catalog = None
  /\ fetched = None
  /\ errors = <<>>
  /\ listing = <<>>
  /\ sql_files = <<>>
  /\ processed = <<>>

Init == \E text \in Inputs(Pieces, MaxPieces) : Start(text)

InitTbl == \E text \in Inputs(TblPieces, MaxTblPieces) : Start(text)

InitPlain == \E text \in Inputs(PlainPieces, MaxPlainPieces) : Start(text)

\* line 203
StripLineComments ==
  /\ pc = "start"
  /\ sql_content' = RemoveLineComments(sql_content)
  /\ pc' = "block"
  /\ UNCHANGED <<source, i, statements, current, in_string, in_tblproperties,
                 string_delimiter, result, driver>>

\* lines 206-212
StripBlockComments ==
  /\ pc = "block"
  /\ sql_content' = RemoveBlockComments(sql_content)
  /\ pc' = "normalize"
  /\ UNCHANGED <<source, i, statements, current, in_string, in_tblproperties,
                 string_delimiter, result, driver>>

\* line 215
Normalize ==
  /\ pc = "normalize"
  /\ sql_content' = NormalizeWhitespace(sql_content)
  /\ pc' = "scan"
  /\ UNCHANGED <<source, i, statements, current, in_string, in_tblproperties,
                 string_delimiter, result, driver>>

\* lines 224-253, one iteration
ScanStep ==
  /\ pc = "scan"
  /\ i <= Len(sql_content)
  /\ LET st == ScanChar(scan, sql_content, i) IN
       /\ statements' = st.statements
       /\ current' = st.current
       /\ in_string' = st.in_string
       /\ in_tblproperties' = st.in_tblproperties
       /\ string_delimiter' = st.string_delimiter
  /\ i' = i + 1
  /\ UNCHANGED <<source, pc, sql_content, result, driver>>

\* lines 255-260
Return ==
  /\ pc = "scan"
  /\ i > Len(sql_content)
  /\ statements' = FinalStatements(statements, current)
  /\ result' = FormatStatements(statements')
  /\ pc' = "done"
  /\ UNCHANGED <<source, sql_content, i, current, in_string, in_tblproperties,
                 string_delimiter, driver>>

Next ==
  \/ StripLineComments
  \/ StripBlockComments
  \/ Normalize
  \/ ScanStep
  \/ Return

InitComment == \E text \in Inputs(CommentPieces, MaxCommentPieces) : Start(text)

InitProtected == \E text \in ProtectedCommentInputs : Start(text)

Spec == Init /\ [][Next]_vars

SpecTbl == InitTbl /\ [][Next]_vars

SpecPlain == InitPlain /\ [][Next]_vars

SpecComment == InitComment /\ [][Next]_vars

SpecProtected == InitProtected /\ [][Next]_vars

(***************************************************************************)
(* execute_sql_file from line 180 on: the split, then the loop of lines    *)
(* 182-194 over the statements with a cursor whose execute returns, raises *)
(* DatabricksError or raises another exception.                            *)
(***************************************************************************)
\* pieces of the text of a file: a letter, the terminator, a blank
FilePieces == {<<"a">>, <<";">>, <<" ">>}

\* what one call of cursor.execute (line 189) can do
ExecuteOutcomes == {"ok", "DatabricksError", "Exception"}

\* line 191 with an except clause that catches nothing
Caught_Nothing(outcome) == FALSE

\* line 191: except DatabricksError
Caught(outcome) == outcome = "DatabricksError"

InitFile == \E text \in Inputs(FilePieces, MaxFilePieces) : Start(text)

\* lines 183-194, one iteration of the loop over the list of line 180
ExecuteStatement ==
  /\ pc = "done"
  /\ stmt_index <= Len(result)
  /\ LET stmt == result[stmt_index] IN
       IF Strip(stmt) = <<>>
       THEN /\ stmt_index' = stmt_index + 1
            /\ UNCHANGED <<pc, executed, failed, raised>>
       ELSE \E outcome \in ExecuteOutcomes :
              /\ executed' = Append(executed, stmt)
              /\ IF outcome = "ok"
                 THEN /\ stmt_index' = stmt_index + 1
                      /\ UNCHANGED <<pc, failed, raised>>
                 ELSE IF Caught(outcome)
                 THEN /\ failed' = failed \cup {stmt_index}
                      /\ stmt_index' = stmt_index + 1
                      /\ UNCHANGED <<pc, raised>>
                 ELSE /\ raised' = outcome
                      /\ pc' = "raised"
                      /\ UNCHANGED <<stmt_index, failed>>
  /\ UNCHANGED <<source, sql_content, i, statements, current, in_string,
                 in_tblproperties, string_delimiter, result, catalog, fetched,
                 errors, files>>

\* the loop of line 183 is exhausted and the method returns
FinishFile ==
  /\ pc = "done"
  /\ stmt_index > Len(result)
  /\ pc' = "returned"
  /\ UNCHANGED <<source, sql_content, i, statements, current, in_string,
                 in_tblproperties, string_delimiter, result, driver>>

NextFile ==
  \/ Next
  \/ ExecuteStatement
  \/ FinishFile

SpecFile == InitFile /\ [][NextFile]_vars

(***************************************************************************)
(* _ensure_catalog_exists: the existence check, then up to three CREATE    *)
(* CATALOG attempts, with a cursor whose execute returns or raises an      *)
(* exception with some message.                                            *)
(***************************************************************************)
UpperLetters == <<"A", "B", "C", "D", "E", "F", "G", "H", "I", "J", "K", "L", "M">>
                  \o <<"N", "O", "P", "Q", "R", "S", "T", "U", "V", "W", "X", "Y", "Z">>

LowerLetters == <<"a", "b", "c", "d", "e", "f", "g", "h", "i", "j", "k", "l", "m">>
                  \o <<"n", "o", "p", "q", "r", "s", "t", "u", "v", "w", "x", "y", "z">>

LowerChar(c) ==
  IF \E k \in 1..Len(UpperLetters) : UpperLetters[k] = c
  THEN LowerLetters[CHOOSE k \in 1..Len(UpperLetters) : UpperLetters[k] = c]
  ELSE c

\* str.lower()
Lower(s) == [k \in 1..Len(s) |-> LowerChar(s[k])]

already_exists == <<"a", "l", "r", "e", "a", "d", "y", " ", "e", "x", "i", "s", "t", "s">>

\* messages of the exceptions of the cursor
Messages == {<<"a", "l", "r", "e", "a", "d", "y", " ", "e", "x", "i", "s", "t", "s">>,
             <<"A", "L", "R", "E", "A", "D", "Y", " ", "E", "X", "I", "S", "T", "S">>,
             <<"x", " ", "A", "l", "r", "e", "a", "d", "y", " ", "E", "x", "i", "s", "t", "s">>,
             <<"a", "l", "r", "e", "a", "d", "y", " ", "e", "x", "i", "s", "t">>,
             <<"d", "e", "n", "i", "e", "d">>}

Catalogs == {<<"c">>, <<"d", "e", "v">>}

\* lines 65-69
check_catalog_sql(cat) ==
  <<"SELECT 1 FROM system.information_schema.catalogs WHERE catalog_name = '">>
    \o cat \o <<"'">>

\* lines 72-74
create_catalog_sql(cat) == <<"CREATE CATALOG IF NOT EXISTS ", Backquote>> \o cat \o <<Backquote>>

\* line 95
dbfs_location(cat) == <<"dbfs:/mnt/accelerated_operational_analytics/">> \o cat

\* lines 96-99
create_with_location(cat) ==
  create_catalog_sql(cat) \o <<" MANAGED LOCATION '">> \o dbfs_location(cat) \o <<"'">>

\* line 113 without .lower()
AlreadyExists_CaseSensitive(msg) == Contains(msg, already_exists)

\* lines 112-113: 'already exists' in str(e).lower()
AlreadyExists(msg) == Contains(Lower(msg), already_exists)

\* what one call of the cursor can do: return, or raise with a message
CursorOutcomes == {<<"ok">>} \cup {<<"raise", msg>> : msg \in Messages}

InitCatalog ==
  /\ \E cat \in Catalogs : catalog = cat
  /\ pc = "check"
  /\ source = <<>>
  /\ sql_content = <<>>
  /\ i = 1
  /\ statements = <<>>
  /\ current = <<>>
  /\ in_string = FALSE
  /\ in_tblproperties = FALSE
  /\ string_delimiter = None
  /\ result = <<>>
  /\ stmt_index = 1
  /\ executed = <<>>
  /\ failed = {}
  /\ raised = None
  /\ fetched = None
  /\ errors = <<>>
  /\ listing = <<>>
  /\ sql_files = <<>>
  /\ processed = <<>>

\* lines 111-117: the handler of the outer try, for an exception with message msg
HandleError(msg) ==
  IF AlreadyExists(msg)
  THEN pc' = "returned" /\ raised' = raised
  ELSE pc' = "raised" /\ raised' = msg

\* lines 76-82, and 111-117 when the check raises
CheckCatalog ==
  /\ pc = "check"
  /\ executed' = Append(executed, check_catalog_sql(catalog))
  /\ \E outcome \in CursorOutcomes, row \in {"row", "no row"} :
       IF outcome[1] = "ok"
       THEN /\ fetched' = row
            /\ pc' = IF row = "row" THEN "returned" ELSE "create"
            /\ UNCHANGED <<raised, errors>>
       ELSE /\ row = "no row"
            /\ errors' = Append(errors, outcome[2])
            /\ HandleError(outcome[2])
            /\ UNCHANGED fetched
  /\ UNCHANGED <<source, sql_content, i, statements, current, in_string,
                 in_tblproperties, string_delimiter, result, stmt_index, failed,
                 catalog, files>>

\* lines 85-90
CreateCatalog ==
  /\ pc = "create"
  /\ executed' = Append(executed, create_catalog_sql(catalog))
  /\ \E outcome \in CursorOutcomes :
       IF outcome[1] = "ok"
       THEN pc' = "returned" /\ UNCHANGED errors
       ELSE pc' = "create_with_location" /\ errors' = Append(errors, outcome[2])
  /\ UNCHANGED <<source, sql_content, i, statements, current, in_string,
                 in_tblproperties, string_delimiter, result, stmt_index, failed,
                 raised, catalog, fetched, files>>

\* lines 93-106
CreateWithLocation ==
  /\ pc = "create_with_location"
  /\ executed' = Append(executed, create_with_location(catalog))
  /\ \E outcome \in CursorOutcomes :
       IF outcome[1] = "ok"
       THEN pc' = "returned" /\ UNCHANGED errors
       ELSE pc' = "fallback" /\ errors' = Append(errors, outcome[2])
  /\ UNCHANGED <<source, sql_content, i, statements, current, in_string,
                 in_tblproperties, string_delimiter, result, stmt_index, failed,
                 raised, catalog, fetched, files>>

\* lines 107-109, and 111-117 when the last attempt raises
CreateFallback ==
  /\ pc = "fallback"
  /\ executed' = Append(executed, create_catalog_sql(catalog))
  /\ \E outcome \in CursorOutcomes :
       IF outcome[1] = "ok"
       THEN pc' = "returned" /\ UNCHANGED <<raised, errors>>
       ELSE errors' = Append(errors, outcome[2]) /\ HandleError(outcome[2])
  /\ UNCHANGED <<source, sql_content, i, statements, current, in_string,
                 in_tblproperties, string_delimiter, result, stmt_index, failed,
                 catalog, fetched, files>>

NextCatalog ==
  \/ CheckCatalog
  \/ CreateCatalog
  \/ CreateWithLocation
  \/ CreateFallback

SpecCatalog == InitCatalog /\ [][NextCatalog]_vars

(***************************************************************************)
(* get_sql_files and the loop of main over the files it returns;           *)
(* execute_sql_file is the machine of SpecFile and here only returns or    *)
(* raises.                                                                  *)
(***************************************************************************)
\* lines 265-270
priority_order == <<<<"d", "i", "m", "_">>,
                    <<"f", "a", "c", "t", "_">>,
                    <<"s", "i", "l", "v", "e", "r", "_">>,
                    <<"g", "o", "l", "d", "_">>>>

dot_sql == <<".", "s", "q", "l">>

\* str.endswith
EndsWith(s, suffix) ==
  /\ Len(s) >= Len(suffix)
  /\ SubSeq(s, Len(s) - Len(suffix) + 1, Len(s)) = suffix

\* lines 276-280 without the two .lower()
get_priority_CaseSensitive(filename) ==
  IF \E k \in 1..Len(priority_order) : Contains(filename, priority_order[k])
  THEN CHOOSE k \in 1..Len(priority_order) :
         /\ Contains(filename, priority_order[k])
         /\ \A j \in 1..(k - 1) : ~Contains(filename, priority_order[j])
  ELSE Len(priority_order) + 1

\* lines 276-280: the 1-based position of the first pattern found in the
\* name, both in lower case, and one past the last position when none is
get_priority(filename) ==
  IF \E k \in 1..Len(priority_order) :
       Contains(Lower(filename), Lower(priority_order[k]))
  THEN CHOOSE k \in 1..Len(priority_order) :
         /\ Contains(Lower(filename), Lower(priority_order[k]))
         /\ \A j \in 1..(k - 1) : ~Contains(Lower(filename), Lower(priority_order[j]))
  ELSE Len(priority_order) + 1

\* sorted(files, key=get_priority) for the names of fs with key p or more:
\* the sort is stable, names with the same key keep their order
RECURSIVE SortedFrom(_, _)
SortedFrom(fs, p) ==
  IF p > Len(priority_order) + 1 THEN <<>>
  ELSE SelectSeq(fs, LAMBDA f : get_priority(f) = p) \o SortedFrom(fs, p + 1)

\* lines 273 and 282
get_sql_files(entries) ==
  SortedFrom(SelectSeq(entries, LAMBDA f : EndsWith(f, dot_sql)), 1)

\* names of directory entries
Names == {<<"d", "i", "m", "_", "a", ".", "s", "q", "l">>,
          <<"F", "a", "c", "t", "_", "a", ".", "s", "q", "l">>,
          <<"s", "i", "l", "v", "e", "r", "_", "f", "a", "c", "t", "_", ".", "s", "q", "l">>,
          <<"s", "i", "l", "v", "e", "r", "_", "a", ".", "s", "q", "l">>,
          <<"g", "o", "l", "d", "_", "a", ".", "s", "q", "l">>,
          <<"a", ".", "s", "q", "l">>,
          <<"d", "i", "m", "_", "a", ".", "S", "Q", "L">>}

\* the duplicate-free lists of at most n names: what os.listdir can return
Listings(n) ==
  {l \in UNION {[1..k -> Names] : k \in 0..n} :
     \A a, b \in 1..Len(l) : a # b => l[a] # l[b]}

InitMain ==
  /\ \E l \in Listings(MaxEntries) : listing = l
  /\ pc = "main"
  /\ sql_files = <<>>
  /\ processed = <<>>
  /\ source = <<>>
  /\ sql_content = <<>>
  /\ i = 1
  /\ statements = <<>>
  /\ current = <<>>
  /\ in_string = FALSE
  /\ in_tblproperties = FALSE
  /\ string_delimiter = None
  /\ result = <<>>
  /\ stmt_index = 1
  /\ executed = <<>>
  /\ failed = {}
  /\ raised = None
  /\ catalog = None
  /\ fetched = None
  /\ errors = <<>>

\* lines 296-301
GetSqlFiles ==
  /\ pc = "main"
  /\ sql_files' = get_sql_files(listing)
  /\ pc' = IF sql_files' = <<>> THEN "returned" ELSE "connect"
  /\ UNCHANGED <<source, sql_content, i, statements, current, in_string,
                 in_tblproperties, string_delimiter, result, stmt_index, executed,
                 failed, raised, catalog, fetched, errors, listing, processed>>

\* line 306: SchemaDeployer.__enter__ connects (lines 40-51), or raises
Connect ==
  /\ pc = "connect"
  /\ \E outcome \in {"ok", "Exception"} :
       IF outcome = "ok"
       THEN pc' = "files" /\ UNCHANGED raised
       ELSE pc' = "raised" /\ raised' = outcome
  /\ UNCHANGED <<source, sql_content, i, statements, current, in_string,
                 in_tblproperties, string_delimiter, result, stmt_index, executed,
                 failed, catalog, fetched, errors, files>>

\* lines 307-310, one iteration, and 314-316 when execute_sql_file raises
ProcessFile ==
  /\ pc = "files"
  /\ Len(processed) < Len(sql_files)
  /\ processed' = Append(processed, sql_files[Len(processed) + 1])
  /\ \E outcome \in {"ok", "Exception"} :
       IF outcome = "ok"
       THEN UNCHANGED <<pc, raised>>
       ELSE pc' = "raised" /\ raised' = outcome
  /\ UNCHANGED <<source, sql_content, i, statements, current, in_string,
                 in_tblproperties, string_delimiter, result, stmt_index, executed,
                 failed, catalog, fetched, errors, listing, sql_files>>

\* line 312: the loop is exhausted
FinishMain ==
  /\ pc = "files"
  /\ Len(processed) = Len(sql_files)
  /\ pc' = "returned"
  /\ UNCHANGED <<source, sql_content, i, statements, current, in_string,
                 in_tblproperties, string_delimiter, result, driver>>

NextMain ==
  \/ GetSqlFiles
  \/ Connect
  \/ ProcessFile
  \/ FinishMain

SpecMain == InitMain /\ [][NextMain]_vars

(***************************************************************************)
(* Regions of a text, read off the text alone                              *)
(***************************************************************************)
\* the delimiter of the string literal that is open just before position p
\* when the quote characters of text are paired from left to right, or None
RECURSIVE LiteralDelim(_, _)
LiteralDelim(text, p) ==
  IF p <= 1 THEN None
  ELSE LET d == LiteralDelim(text, p - 1)
           c == text[p - 1]
       IN IF d = None THEN (IF c \in QuoteChars THEN c ELSE None)
          ELSE IF c = d THEN None ELSE d

\* position p lies inside a string literal: a region opened by a quote
\* character and closed by the next occurrence of the same character
InLiteral(text, p) ==
  /\ LiteralDelim(text, p) # None
  /\ text[p] # LiteralDelim(text, p)
  /\ \E q \in (p + 1)..Len(text) : text[q] = LiteralDelim(text, p)

\* position p lies inside a TBLPROPERTIES region: from an occurrence of the
\* keyword up to and including the first ) after it
InTblRegion(text, p) ==
  \E k \in 1..p : /\ KeywordAt(text, k)
                  /\ \A q \in k..(p - 1) : text[q] # ")"

\* no quote character of text lies inside a TBLPROPERTIES region
NoQuoteInTblRegion(text) ==
  \A p \in 1..Len(text) : text[p] \in QuoteChars => ~InTblRegion(text, p)

\* the step of the scan that is about to read a ; and ends a statement there
EndsStatementAtSemicolon ==
  /\ pc = "scan"
  /\ i <= Len(sql_content)
  /\ sql_content[i] = ";"
  /\ Len(statements') > Len(statements)

ClosesRegion(text, c) ==
  c \in 1..Len(text) /\ text[c] = ")" /\ InTblRegion(text, c)

Trimmed(s) == s # <<>> => (s[1] \notin Whitespace /\ s[Len(s)] \notin Whitespace)

\* s ends in two ; or more
EndsInTwoSemicolons(s) == Len(s) >= 2 /\ s[Len(s)] = ";" /\ s[Len(s) - 1] = ";"

\* C3, as stated: every returned statement is trimmed and ends in exactly
\* one ;.
C3_TrimmedAndExactlyOneSemicolon ==
  pc = "done" =>
    \A k \in 1..Len(result) :
      /\ Trimmed(result[k])
      /\ EndsWithSemicolon(result[k])
      /\ ~EndsInTwoSemicolons(result[k])

\* C3, amended: every returned statement is trimmed and ends in ;, and it
\* ends in exactly one ; unless it is the last statement, taken from the
\* buffer at the end of a scan that ended inside a quoted or a TBLPROPERTIES
\* region.
C3_TrimmedAndTerminated ==
  pc = "done" =>
    \A k \in 1..Len(result) :
      /\ Trimmed(result[k])
      /\ EndsWithSemicolon(result[k])
      /\ EndsInTwoSemicolons(result[k])
           => /\ k = Len(result)
              /\ Strip(current) # <<>>
              /\ in_string \/ in_tblproperties

\* C3 witness: a call has returned a statement cut at a ; and a last
\* statement, from an unclosed quoted region, that ends in two ;.
C3_Witness ==
  /\ pc = "done"
  /\ Len(result) = 2
  /\ result[1] = <<"a", ";">>
  /\ in_string
  /\ EndsInTwoSemicolons(result[2])

(***************************************************************************)
(* C4                                                                      *)
(***************************************************************************)
\* C4: during the scan the buffer is the part of the scanned text between
\* the last statement boundary and the character about to be read; a step
\* that ends the buffer appends that part, trimmed, after the statements
\* already found when it is not empty, and so does the end of the scan;
\* no other step changes the list; and the returned list has one entry for
\* each statement found, in that order, with at most a ; added.
C4_StatementsInSourceOrder ==
  [][(pc = "scan")
       => LET from == i - Len(current)
              ends == pc' = "done" \/ Len(current') <= Len(current)
          IN /\ current = Slice(sql_content, from, i - 1)
             /\ ~ends => statements' = statements
             /\ ends => \E e \in {i - 1, i} :
                          /\ e <= Len(sql_content)
                          /\ statements' =
                               IF Strip(Slice(sql_content, from, e)) # <<>>
                               THEN Append(statements,
                                           Strip(Slice(sql_content, from, e)))
                               ELSE statements
             /\ (pc' = "done")
                  => /\ Len(result') = Len(statements')
                     /\ \A k \in 1..Len(result') :
                          result'[k] \in {statements'[k],
                                          statements'[k] \o <<";">>}]_vars

\* C4 witness: a call has returned two equal statements followed by a
\* different one.
C4_Witness ==
  /\ pc = "done"
  /\ Len(result) = 3
  /\ result[1] = result[2]
  /\ result[3] # result[1]

(***************************************************************************)
(* C5                                                                      *)
(***************************************************************************)
\* every character of s is whitespace or ;
OnlyWhitespaceAndSemicolons(s) ==
  \A p \in 1..Len(s) : s[p] \in Whitespace \cup {";"}

\* C5: no returned statement is empty or all whitespace, and a text of
\* whitespace and ; alone returns the empty list.
C5_NoEmptyStatement ==
  pc = "done" =>
    /\ \A k \in 1..Len(result) : Strip(result[k]) # <<>>
    /\ OnlyWhitespaceAndSemicolons(source) => result = <<>>

\* C5 witness: a call has returned the empty list for a text that holds both
\* whitespace and two ;.
C5_Witness ==
  /\ pc = "done"
  /\ OnlyWhitespaceAndSemicolons(source)
  /\ \E p, q \in 1..Len(source) :
       p < q /\ source[p] = ";" /\ source[q] = ";"
  /\ \E p \in 1..Len(source) : source[p] = " "
  /\ result = <<>>

(***************************************************************************)
(* C6                                                                      *)
(***************************************************************************)
\* C6: when the scan ends with content in the buffer that is not all
\* whitespace and has no closing ;, the last returned statement is that
\* content, trimmed, with a ; appended.
C6_TrailingStatementEmitted ==
  (pc = "done" /\ Strip(current) # <<>> /\ ~EndsWithSemicolon(Strip(current)))
    => /\ result # <<>>
       /\ result[Len(result)] = Strip(current) \o <<";">>

\* C6 witness: a call has returned a statement cut at a ; and then the
\* unterminated rest of the text, which had whitespace to trim.
C6_Witness ==
  /\ pc = "done"
  /\ Len(result) = 2
  /\ Strip(current) # <<>>
  /\ Strip(current) # current
  /\ ~EndsWithSemicolon(Strip(current))
  /\ result[2] = Strip(current) \o <<";">>

(***************************************************************************)
(* C7                                                                      *)
(***************************************************************************)
\* text.split(';'): the pieces of text between its ; characters
RECURSIVE CutAtSemicolons(_)
CutAtSemicolons(text) ==
  LET k == Find(text, <<";">>, 1) IN
    IF k = 0 THEN <<text>>
    ELSE <<SubSeq(text, 1, k - 1)>> \o CutAtSemicolons(Slice(text, k + 1, Len(text)))

\* each piece trimmed, the empty ones dropped, ; appended to the others
RECURSIVE TrimDropTerminate(_)
TrimDropTerminate(pieces) ==
  IF pieces = <<>> THEN <<>>
  ELSE IF Strip(Head(pieces)) = <<>> THEN TrimDropTerminate(Tail(pieces))
  ELSE <<Strip(Head(pieces)) \o <<";">> >> \o TrimDropTerminate(Tail(pieces))

\* the reference splitter of C7 on the whitespace-normalised text
ReferenceSplit(text) == TrimDropTerminate(CutAtSemicolons(NormalizeWhitespace(text)))

\* text holds no quote character, no keyword in any case and no comment
PlainText(text) ==
  /\ \A p \in 1..Len(text) : text[p] \notin QuoteChars
  /\ ~Contains(Upper(text), TBLPROPERTIES)
  /\ ~Contains(text, <<"-", "-">>)
  /\ ~Contains(text, <<"/", "*">>)

\* C7: on a text without quote characters, keyword and comments the result
\* is that of the reference splitter.
C7_PlainTextSplitsAtEverySemicolon ==
  (pc = "done" /\ PlainText(source)) => result = ReferenceSplit(source)

\* C7 witness: a call has returned two statements for a plain text that
\* holds a line break and a blank.
C7_Witness ==
  /\ pc = "done"
  /\ PlainText(source)
  /\ \E p, q \in 1..Len(source) : source[p] = "\n" /\ source[q] = " "
  /\ Len(result) = 2
  /\ result = ReferenceSplit(source)

(***************************************************************************)
(* C8                                                                      *)
(***************************************************************************)
\* the scan is about to read text[k] in state st, outside a quoted region
\* and outside a TBLPROPERTIES region, and text[k] is a ;
AtTerminator(st, text, k) ==
  /\ text[k] = ";"
  /\ ~st.in_string
  /\ ~(st.in_tblproperties \/ KeywordAt(text, k))

\* the scan is about to read text[k] in state st, inside a TBLPROPERTIES
\* region, and text[k] is a )
AtRegionClosure(st, text, k) ==
  /\ text[k] = ")"
  /\ st.in_tblproperties \/ KeywordAt(text, k)

\* the number of ; of text[k..] scanned outside a quoted region and outside
\* a TBLPROPERTIES region, the scan being in state st before text[k]
RECURSIVE CountTerminators(_, _, _)
CountTerminators(st, text, k) ==
  IF k > Len(text) THEN 0
  ELSE (IF AtTerminator(st, text, k) THEN 1 ELSE 0)
         + CountTerminators(ScanChar(st, text, k), text, k + 1)

\* the same, counting only the ; met with a buffer that is not all whitespace
RECURSIVE CountEndingTerminators(_, _, _)
CountEndingTerminators(st, text, k) ==
  IF k > Len(text) THEN 0
  ELSE (IF AtTerminator(st, text, k) /\ Strip(st.current) # <<>> THEN 1 ELSE 0)
         + CountEndingTerminators(ScanChar(st, text, k), text, k + 1)

\* the number of TBLPROPERTIES regions of text[k..] closed at a )
RECURSIVE CountRegionClosures(_, _, _)
CountRegionClosures(st, text, k) ==
  IF k > Len(text) THEN 0
  ELSE (IF AtRegionClosure(st, text, k) THEN 1 ELSE 0)
         + CountRegionClosures(ScanChar(st, text, k), text, k + 1)

\* 1 if content that is not all whitespace remains at the end of the scan
TrailingCount == IF Strip(current) # <<>> THEN 1 ELSE 0

\* C8, as stated: the number of returned statements is the number of ;
\* scanned outside quoted and TBLPROPERTIES regions, plus the number of
\* region closures, plus one for remaining content.
C8_CountsEveryTerminator ==
  pc = "done" =>
    Len(result) = CountTerminators(InitScan, sql_content, 1)
                    + CountRegionClosures(InitScan, sql_content, 1)
                    + TrailingCount

\* C8, amended: the number of returned statements is the number of ;
\* scanned outside quoted and TBLPROPERTIES regions with content that is
\* not all whitespace in the buffer, plus the number of region closures,
\* plus one for remaining content.
C8_CountsEndingTerminators ==
  pc = "done" =>
    Len(result) = CountEndingTerminators(InitScan, sql_content, 1)
                    + CountRegionClosures(InitScan, sql_content, 1)
                    + TrailingCount

\* C8 witness: a call has returned two statements, one for a ; and one for
\* a region closure, and has met one more ; with an empty buffer.
C8_Witness ==
  /\ pc = "done"
  /\ Len(result) = 2
  /\ CountEndingTerminators(InitScan, sql_content, 1) = 1
  /\ CountTerminators(InitScan, sql_content, 1) = 2
  /\ CountRegionClosures(InitScan, sql_content, 1) = 1

(***************************************************************************)
(* C9                                                                      *)
(***************************************************************************)
\* C9: splitting the concatenation of the returned statements returns the
\* same statements.
C9_Idempotent ==
  pc = "done" => SplitSqlStatements(Flatten(result)) = result

(***************************************************************************)
(* C10                                                                     *)
(***************************************************************************)
\* the scan is inside a quoted region that no later character closes
InUnclosedQuote ==
  /\ pc = "scan"
  /\ i <= Len(sql_content)
  /\ in_string
  /\ \A q \in i..Len(sql_content) : sql_content[q] # string_delimiter

\* C10: once the scan is inside a quoted region that is never closed, no
\* step up to the end of the text ends a statement or leaves the region:
\* the rest of the text is one quoted run, in one trailing statement.
C10_UnclosedQuoteIsOneRun ==
  [][InUnclosedQuote
       => /\ statements' = statements
          /\ in_string'
          /\ current' = Append(current, sql_content[i])]_vars

(***************************************************************************)
(* C11                                                                     *)
(***************************************************************************)
\* position p lies inside a TBLPROPERTIES region that no ) closes
InUnclosedTblRegion(text, p) ==
  /\ p \in 1..Len(text)
  /\ InTblRegion(text, p)
  /\ \A q \in p..Len(text) : text[q] # ")"

\* C11: once the scan is inside a TBLPROPERTIES region that no ) closes,
\* every character up to the end of the text, a ; and a quote character
\* included, is added to the buffer as plain content and ends no statement;
\* and the call returns, as its last statement, the whole text from the
\* start of the statement in progress to the end of the input.
C11_UnclosedTblpropertiesIsOneRun ==
  [][(pc = "scan")
       => /\ InUnclosedTblRegion(sql_content, i)
               => /\ statements' = statements
                  /\ current' = Append(current, sql_content[i])
                  /\ in_string' = in_string
                  /\ in_tblproperties'
          /\ (pc' = "done" /\ InUnclosedTblRegion(sql_content, Len(sql_content)))
               => LET from == i - Len(current)
                      rest == Strip(Slice(sql_content, from, Len(sql_content)))
                  IN /\ InTblRegion(sql_content, Len(sql_content))
                     /\ \E k \in from..Len(sql_content) : KeywordAt(sql_content, k)
                     /\ Len(statements') = Len(statements) + 1
                     /\ result' # <<>>
                     /\ result'[Len(result')] \in {rest, rest \o <<";">>}]_vars

\* C11 witness: a call has returned, after an earlier statement, one last
\* statement that runs from before the keyword to the end of the text, with
\* a ; and a quote character after the keyword and no ).
C11_Witness ==
  /\ pc = "done"
  /\ Len(result) = 2
  /\ InUnclosedTblRegion(sql_content, Len(sql_content))
  /\ \E k \in 2..Len(sql_content) :
       /\ KeywordAt(sql_content, k)
       /\ sql_content[k - 1] = "'"
       /\ \E p, q \in (k + 1)..Len(sql_content) :
            sql_content[p] = ";" /\ sql_content[q] \in QuoteChars
  /\ result[2] = current

(***************************************************************************)
(* C12                                                                     *)
(***************************************************************************)
\* the /* ... */ spans of text from position from on, each the leftmost /*
\* with the first */ after it, as pairs <<first, last>> of positions
RECURSIVE CommentSpans(_, _)
CommentSpans(text, from) ==
  LET k == Find(text, <<"/", "*">>, from) IN
    IF k = 0 THEN {}
    ELSE LET e == Find(text, <<"*", "/">>, k + 2) IN
           IF e = 0 THEN {}
           ELSE {<<k, e + 1>>} \cup CommentSpans(text, e + 2)

SpanText(text, sp) == SubSeq(text, sp[1], sp[2])

\* the span holds, in any case, one of the three markers
HasMarker(content) ==
  \E marker \in {TBLPROPERTIES, CREATE_, SCHEMA_} : Contains(Upper(content), marker)

\* the characters of text at the positions that are not in P, in order
RECURSIVE DropPositions(_, _, _)
DropPositions(text, P, k) ==
  IF k > Len(text) THEN <<>>
  ELSE (IF k \in P THEN <<>> ELSE <<text[k]>>) \o DropPositions(text, P, k + 1)

\* the positions of text inside a span without marker
UnprotectedPositions(text) ==
  UNION {sp[1]..sp[2] : sp \in {x \in CommentSpans(text, 1) : ~HasMarker(SpanText(text, x))}}

\* the scan is about to start: sql_content is the text handed to it
ScanStarts == pc = "scan" /\ i = 1

\* C12, as stated: every /* ... */ span of the input with a marker is
\* present verbatim in the text handed to the scan, and every span without
\* marker is absent from it.
C12_SpansVerbatimOrAbsent ==
  ScanStarts =>
    \A sp \in CommentSpans(source, 1) :
      IF HasMarker(SpanText(source, sp))
      THEN Contains(sql_content, SpanText(source, sp))
      ELSE ~Contains(sql_content, SpanText(source, sp))

\* C12, amended: with T the input after the removal of the single-line
\* comments, the text handed to the scan is T with every span without marker
\* deleted, every span with a marker and every other character left in
\* place, and then every line trimmed and the empty lines dropped; so a span
\* of T with a marker and without a line break is in it verbatim.
C12_SpansKeptOrDeleted ==
  ScanStarts =>
    LET T == RemoveLineComments(source) IN
      /\ sql_content =
           NormalizeWhitespace(DropPositions(T, UnprotectedPositions(T), 1))
      /\ \A sp \in CommentSpans(T, 1) :
           (HasMarker(SpanText(T, sp)) /\ ~Contains(SpanText(T, sp), <<LineBreak>>))
             => Contains(sql_content, SpanText(T, sp))

\* C12 witness: the scan starts on a text that had a span with a marker in
\* lower case, kept, and a span without marker, deleted.
C12_Witness ==
  /\ ScanStarts
  /\ \E sp, sq \in CommentSpans(source, 1) :
       /\ HasMarker(SpanText(source, sp))
       /\ ~HasMarker(SpanText(source, sq))
       /\ sql_content = SpanText(source, sp)

(***************************************************************************)
(* C13                                                                     *)
(***************************************************************************)
\* the comment at the head of source, and the statement after it
LeadingComment == SpanText(source, CHOOSE sp \in CommentSpans(source, 1) : sp[1] = 1)

FollowingStatement == Slice(source, Len(LeadingComment) + 1, Len(source))

\* C13, as stated: for an input made of a comment with a marker and without
\* ;, immediately followed by one statement closed by ;, exactly one
\* statement is returned, and it contains the comment and the statement.
C13_CommentAndStatementAreOne ==
  pc = "done" =>
    /\ Len(result) = 1
    /\ Contains(result[1], LeadingComment)
    /\ Contains(result[1], FollowingStatement)

(***************************************************************************)
(* C14                                                                     *)
(***************************************************************************)
\* the number of ( in text[from..to]
OpenParens(text, from, to) ==
  Cardinality({q \in from..to : text[q] = "("})

\* C14: a step of the scan that reads a ) inside a TBLPROPERTIES region, the
\* first ) after the keyword however many ( came before it, finds the region
\* flag set, ends the current statement at that ), and leaves the buffer
\* empty and the region flag cleared, the quote flag as it was.
C14_FirstParenClosesRegion ==
  [][(/\ pc = "scan"
      /\ i <= Len(sql_content)
      /\ sql_content[i] = ")"
      /\ InTblRegion(sql_content, i))
       => /\ in_tblproperties
          /\ statements' = Append(statements, Strip(Append(current, ")")))
          /\ current' = <<>>
          /\ ~in_tblproperties'
          /\ in_string' = in_string]_vars

\* C14 witness: the scan has just closed, at its first ), a region with two
\* ( open, has emitted the statement that ends there, and now stands with an
\* empty buffer and no region before the ) that would match the first (.
C14_Witness ==
  /\ pc = "scan"
  /\ i > 1
  /\ i <= Len(sql_content)
  /\ sql_content[i - 1] = ")"
  /\ sql_content[i] = ")"
  /\ \E k \in 1..(i - 1) : /\ KeywordAt(sql_content, k)
                           /\ \A q \in k..(i - 2) : sql_content[q] # ")"
                           /\ OpenParens(sql_content, k, i - 1) = 2
  /\ current = <<>>
  /\ ~in_tblproperties
  /\ Len(statements) = 1
  /\ statements[1] = Slice(sql_content, 1, i - 1)

(***************************************************************************)
(* C15                                                                     *)
(***************************************************************************)
\* C15, as stated: at every step of the scan the flags in_string and
\* in_tblproperties are never both true.
C15_OneModeAtATime == ~(in_string /\ in_tblproperties)

(***************************************************************************)
(* C16                                                                     *)
(***************************************************************************)
\* the statements of stmts that are not blank, in order
NonBlank(stmts) == SelectSeq(stmts, LAMBDA stmt : Strip(stmt) # <<>>)

\* execute_sql_file is over: it has returned or an exception has left it
FileOver == pc \in {"returned", "raised"}

\* C16, as stated: when execute_sql_file is over, every statement of the
\* split that is not blank has been passed to cursor.execute exactly once,
\* in the order of the split, whatever failed on the way.
C16_EveryStatementSubmitted ==
  FileOver => executed = NonBlank(result)

\* C16, amended: the statements passed to cursor.execute are at every moment
\* the first ones of the split, each once and in order; a DatabricksError
\* never leaves the method, so that when the method returns every statement
\* has been passed; only an exception of another class leaves the loop, at
\* the statement that raised it, and the later statements are not passed.
C16_SubmittedUntilOtherException ==
  /\ Len(executed) <= Len(NonBlank(result))
  /\ executed = SubSeq(NonBlank(result), 1, Len(executed))
  /\ failed \subseteq 1..Len(executed)
  /\ raised # "DatabricksError"
  /\ pc = "returned" => raised = None /\ executed = NonBlank(result)
  /\ pc = "raised" <=> raised = "Exception"
  /\ pc = "raised" => Len(executed) = stmt_index

\* C16 witness: the method has returned after passing two statements, the
\* first of which raised DatabricksError.
C16_Witness ==
  /\ pc = "returned"
  /\ Len(executed) = 2
  /\ failed = {1}
  /\ executed = result

(***************************************************************************)
(* C17                                                                     *)
(***************************************************************************)
\* the messages that hold 'already exists' in some case
SaysAlreadyExists ==
  {<<"a", "l", "r", "e", "a", "d", "y", " ", "e", "x", "i", "s", "t", "s">>,
   <<"A", "L", "R", "E", "A", "D", "Y", " ", "E", "X", "I", "S", "T", "S">>,
   <<"x", " ", "A", "l", "r", "e", "a", "d", "y", " ", "E", "x", "i", "s", "t", "s">>}

\* the statements of _ensure_catalog_exists in their fixed order
FallbackOrder ==
  <<check_catalog_sql(catalog), create_catalog_sql(catalog),
    create_with_location(catalog), create_catalog_sql(catalog)>>

CatalogOver == pc \in {"returned", "raised"}

\* C17: the statements sent are, in order, the existence check, CREATE
\* CATALOG without location, CREATE CATALOG with the DBFS location and
\* CREATE CATALOG without location again, so at most three CREATE; none is
\* sent after a check that returned a row or raised; each CREATE but the
\* first follows a failed one and none follows a successful one; and an
\* exception leaves the method only with a message that does not hold
\* 'already exists' in any case, and then it is the last one the cursor raised.
C17_FallbackOrder ==
  /\ Len(executed) <= 4
  /\ executed = SubSeq(FallbackOrder, 1, Len(executed))
  /\ fetched = "row" => executed = <<check_catalog_sql(catalog)>> /\ pc = "returned"
  /\ (fetched = None /\ Len(executed) >= 1) => Len(executed) = 1 /\ CatalogOver
  /\ Len(executed) >= 2 => fetched = "no row"
  /\ (fetched = None /\ pc # "check") => Len(errors) = 1
  /\ (pc \in {"create", "create_with_location", "fallback"})
       => Len(errors) = Len(executed) - 1
  /\ (CatalogOver /\ Len(executed) >= 2)
       => Len(errors) \in {Len(executed) - 2, Len(executed) - 1}
  /\ (CatalogOver /\ Len(executed) \in 2..3) => Len(errors) = Len(executed) - 2
  /\ raised # None
       => /\ pc = "raised"
          /\ raised \notin SaysAlreadyExists
          /\ errors # <<>>
          /\ raised = errors[Len(errors)]
  /\ pc = "raised" => raised # None


\* C17 witness: the check found no row, the three CREATE attempts were made
\* in order and all failed, the last with "x Already Exists", and the method
\* returned without an exception.
C17_Witness ==
  /\ pc = "returned"
  /\ fetched = "no row"
  /\ executed = FallbackOrder
  /\ Len(errors) = 3
  /\ errors[3] \in SaysAlreadyExists
  /\ errors[3] # already_exists
  /\ raised = None

(***************************************************************************)
(* C18                                                                     *)
(***************************************************************************)
\* pattern occurs in name, whatever the case of the letters
Mentions(name, pattern) ==
  \E k \in 1..(Len(name) - Len(pattern) + 1) :
    \A j \in 1..Len(pattern) : LowerChar(name[k + j - 1]) = LowerChar(pattern[j])

\* the class of a name: 1 for dim_, 2 for fact_, 3 for silver_, 4 for gold_,
\* the first that the name mentions, and 5 for a name that mentions none
ClassOf(name) ==
  IF Mentions(name, <<"d", "i", "m", "_">>) THEN 1
  ELSE IF Mentions(name, <<"f", "a", "c", "t", "_">>) THEN 2
  ELSE IF Mentions(name, <<"s", "i", "l", "v", "e", "r", "_">>) THEN 3
  ELSE IF Mentions(name, <<"g", "o", "l", "d", "_">>) THEN 4
  ELSE 5

\* the entries of the listing whose last four characters are .sql
SqlEntries ==
  {listing[k] : k \in {j \in 1..Len(listing) :
     /\ Len(listing[j]) >= 4
     /\ listing[j][Len(listing[j]) - 3] = "."
     /\ listing[j][Len(listing[j]) - 2] = "s"
     /\ listing[j][Len(listing[j]) - 1] = "q"
     /\ listing[j][Len(listing[j])] = "l"}}

\* C18: once get_sql_files has returned, its result holds exactly the
\* entries of the listing that end in .sql, each once, with every dim_ file
\* before every fact_ file, those before the silver_ files, those before the
\* gold_ files and those before the files of no class; and main passes the
\* files to execute_sql_file in that order, all of them when it returns.
C18_FilesInDependencyOrder ==
  pc # "main" =>
    /\ {sql_files[k] : k \in 1..Len(sql_files)} = SqlEntries
    /\ Len(sql_files) = Cardinality(SqlEntries)
    /\ \A a, b \in 1..Len(sql_files) :
         a < b => ClassOf(sql_files[a]) <= ClassOf(sql_files[b])
    /\ Len(processed) <= Len(sql_files)
    /\ processed = SubSeq(sql_files, 1, Len(processed))
    /\ (pc = "returned" /\ raised = None) => processed = sql_files

\* C18 witness: main has returned after processing three files that the
\* listing held in the reverse order, one of them classified by a pattern
\* in another case than the name's.
C18_Witness ==
  /\ pc = "returned"
  /\ Len(listing) = 3
  /\ processed = <<listing[3], listing[2], listing[1]>>
  /\ ClassOf(listing[3]) < ClassOf(listing[2])
  /\ ClassOf(listing[2]) < ClassOf(listing[1])
  /\ \E k \in 1..3 : listing[k][1] = "F"

(***************************************************************************)
(* C19                                                                     *)
(***************************************************************************)
\* the positions of text[k..] at which the scan, in state st before
\* text[k], ends a statement at a ; read outside every region
RECURSIVE TerminatorPositions(_, _, _)
TerminatorPositions(st, text, k) ==
  IF k > Len(text) THEN {}
  ELSE (IF AtTerminator(st, text, k) THEN {k} ELSE {})
         \cup TerminatorPositions(ScanChar(st, text, k), text, k + 1)

\* the positions of text[k..] at which the scan closes a TBLPROPERTIES region
RECURSIVE ClosurePositions(_, _, _)
ClosurePositions(st, text, k) ==
  IF k > Len(text) THEN {}
  ELSE (IF AtRegionClosure(st, text, k) THEN {k} ELSE {})
         \cup ClosurePositions(ScanChar(st, text, k), text, k + 1)

\* the whitespace of text between statements: next to the start of a
\* statement (the start of the text, or just after a terminator or a closing
\* )) or next to its end (a terminator, or the end of the text)
InterStatementWhitespace(text) ==
  LET T == TerminatorPositions(InitScan, text, 1)
      C == ClosurePositions(InitScan, text, 1)
      blank(from, to) == \A q \in from..to : text[q] \in Whitespace
  IN {p \in 1..Len(text) :
        /\ text[p] \in Whitespace
        /\ \/ \E b \in T \cup C \cup {0} : b < p /\ blank(b + 1, p)
           \/ \E e \in T \cup {Len(text) + 1} : e > p /\ blank(p, e - 1)}

\* C19: when the scan is over, the statements emitted, put end to end as
\* they are before the final ; is appended, are the scanned text without its
\* terminators (the ; read outside quoted and TBLPROPERTIES regions) and
\* without the whitespace between statements, every other character kept
\* once and in place; the returned statements are these, each with a ;
\* appended unless it ends in one.
C19_ContentConserved ==
  pc = "done" =>
    /\ Flatten(statements) =
         DropPositions(sql_content,
                       TerminatorPositions(InitScan, sql_content, 1)
                         \cup InterStatementWhitespace(sql_content), 1)
    /\ Len(result) = Len(statements)
    /\ \A k \in 1..Len(result) :
         result[k] \in {statements[k], Append(statements[k], ";")}

\* C19 witness: two statements were emitted from a text that lost one
\* terminator and one blank and kept a ; read inside a quoted region.
C19_Witness ==
  /\ pc = "done"
  /\ Len(statements) = 2
  /\ Len(Flatten(statements)) = Len(sql_content) - 2
  /\ Cardinality(TerminatorPositions(InitScan, sql_content, 1)) = 1
  /\ \E k \in 1..Len(statements[2]) : statements[2][k] = ";"

(***************************************************************************)
(* C20                                                                     *)
(***************************************************************************)
\* C20, as stated: no returned statement is made of ; and whitespace alone.
C20_NoBareTerminator ==
  pc = "done" =>
    \A k \in 1..Len(result) :
      \E p \in 1..Len(result[k]) : result[k][p] \notin Whitespace \cup {";"}

====
